---------------------------- MODULE Spec2Model ----------------------------
(***************************************************************************)
(* A model of youtube-summariser: the URL resolver (utils.rs), the         *)
(* transcript pipeline and its entity decoder (transcript.rs), the         *)
(* truncation before the language-model call (openai.rs) and the cache     *)
(* handling of main (main.rs, utils.rs).                                   *)
(*                                                                         *)
(* Text is a sequence of Unicode code points: "&amp;" is                   *)
(* <<38, 97, 109, 112, 59>>.  A Rust String is the UTF-8 encoding of such  *)
(* a sequence, so String::len is Utf8Len and not Len.                      *)
(***************************************************************************)
EXTENDS Integers, Sequences, FiniteSets, TLC

VARIABLES
    \* decode_html_entities (transcript.rs:120-148)
    text,        \* the argument
    result,      \* the local `result`
    dpc,         \* "named" | "numeric" | "done" | "idle"
    iters,       \* iterations of the numeric loop taken so far
    \* extract_video_id (utils.rs:8-26)
    url,         \* the argument
    video_id,    \* the Result returned: [ok, id]
    rpc,         \* "call" | "done" | "idle"
    \* generate_summary and generate_highlights (openai.rs:21-106)
    long_transcript,  \* the argument, as runs of equal characters
    api_key,          \* OPENAI_API_KEY is set
    handed,           \* the truncated_transcript put into each request
    tpc,              \* "summary" | "highlights" | "done" | "failed" | "panicked" | "idle"
    \* main (main.rs:27-97) with fetch_video_data (transcript.rs:17-64)
    pc,               \* where the run is; "idle" between two runs
    runs,             \* the runs of main started so far
    exit,             \* how the last run ended: "none" | "ok" | "err"
    force,            \* args.force
    video,            \* video_id of main
    net,              \* what the network can answer: [pages, captions]
    html, title, description, captions_url, transcript_data,
    transcript,       \* the locals of fetch_video_data; metadata.transcript
    steps,            \* the steps fetch_video_data has executed, in order
    fetch_err,        \* the step of fetch_video_data that failed, or "none"
    summary, highlights,   \* the locals of main
    dir_exists,       \* output/<video_id> exists
    files,            \* the files of output/<video_id>: [exists, content]
    last_fetched      \* the transcript of the last fetch_video_data that returned Ok

decodeVars == <<text, result, dpc, iters>>
resolveVars == <<url, video_id, rpc>>
truncVars == <<long_transcript, api_key, handed, tpc>>
fetchLocals == <<html, title, description, captions_url, transcript_data, transcript>>
fsVars == <<dir_exists, files>>
mainVars == <<pc, runs, exit, force, video, net, fetchLocals, steps, fetch_err,
              summary, highlights, fsVars, last_fetched>>

vars == <<decodeVars, resolveVars, truncVars, mainVars>>

-----------------------------------------------------------------------------
(* Bounds of the model                                                     *)

\* Inputs of the decoder are concatenations of at most MaxTokens tokens.
MaxTokens == 3

-----------------------------------------------------------------------------
(* Strings                                                                 *)

\* The concatenation of a sequence of strings.
RECURSIVE Concat(_)
Concat(ss) == IF ss = <<>> THEN <<>> ELSE Head(ss) \o Concat(Tail(ss))

\* All sequences over S of length at most n.
SeqsUpTo(S, n) == UNION { [1..k -> S] : k \in 0..n }

\* pat occurs in s at index i (1-based).
MatchesAt(s, pat, i) ==
    /\ i >= 1
    /\ i + Len(pat) - 1 <= Len(s)
    /\ \A k \in 1..Len(pat) : s[i + k - 1] = pat[k]

Contains(s, pat) == \E i \in 1..Len(s) : MatchesAt(s, pat, i)

\* The bytes of one char in UTF-8 (char::len_utf8).
Utf8Width(c) ==
    IF c < 128 THEN 1 ELSE IF c < 2048 THEN 2 ELSE IF c < 65536 THEN 3 ELSE 4

\* String::len: the length in bytes.
RECURSIVE Utf8Len(_)
Utf8Len(s) == IF s = <<>> THEN 0 ELSE Utf8Width(Head(s)) + Utf8Len(Tail(s))

\* str::replace(from, to): every non-overlapping occurrence of `from`, found
\* left to right, is replaced by `to`; the replacement text is not rescanned.
RECURSIVE StrReplace(_, _, _)
StrReplace(s, from, to) ==
    IF Len(s) < Len(from) \/ from = <<>> THEN s
    ELSE IF MatchesAt(s, from, 1)
         THEN to \o StrReplace(SubSeq(s, Len(from) + 1, Len(s)), from, to)
         ELSE <<Head(s)>> \o StrReplace(Tail(s), from, to)

-----------------------------------------------------------------------------
(* decode_html_entities, transcript.rs:120-148                             *)

\* The chain of replace calls of lines 121-130, in the order of the chain.
NamedTable == <<
    [from |-> <<38, 113, 117, 111, 116, 59>>,  to |-> <<34>>],  \* &quot;  "
    [from |-> <<38, 97, 109, 112, 59>>,        to |-> <<38>>],  \* &amp;   &
    [from |-> <<38, 108, 116, 59>>,            to |-> <<60>>],  \* &lt;    <
    [from |-> <<38, 103, 116, 59>>,            to |-> <<62>>],  \* &gt;    >
    [from |-> <<38, 35, 51, 57, 59>>,          to |-> <<39>>],  \* &#39;   '
    [from |-> <<38, 97, 112, 111, 115, 59>>,   to |-> <<39>>],  \* &apos;  '
    [from |-> <<38, 35, 120, 50, 55, 59>>,     to |-> <<39>>],  \* &#x27;  '
    [from |-> <<38, 35, 120, 50, 70, 59>>,     to |-> <<47>>],  \* &#x2F;  /
    [from |-> <<60, 98, 114, 47, 62>>,         to |-> <<10>>],  \* <br/>   \n
    [from |-> <<60, 98, 114, 32, 47, 62>>,     to |-> <<10>>]   \* <br />  \n
>>

\* Each replace works on the String the one before it returned.
RECURSIVE ReplaceChain(_, _)
ReplaceChain(s, table) ==
    IF table = <<>> THEN s
    ELSE ReplaceChain(StrReplace(s, Head(table).from, Head(table).to), Tail(table))

DecodeNamed(s) == ReplaceChain(s, NamedTable)

\* \d of the regex crate is Unicode-aware: the ASCII digits and the other
\* decimal digits (Nd), of which the Arabic-Indic block stands here.
IsAsciiDigit(c) == c \in 48..57
IsRegexDigit(c) == IsAsciiDigit(c) \/ c \in 1632..1641

\* The end of the longest run of \d starting at index i (i - 1 when empty).
RECURSIVE DigitRunEnd(_, _)
DigitRunEnd(s, i) ==
    IF i <= Len(s) /\ IsRegexDigit(s[i]) THEN DigitRunEnd(s, i + 1) ELSE i - 1

\* &#(\d+); matches at index i: the greedy digit run must be followed by ';'.
NumericAt(s, i) ==
    /\ MatchesAt(s, <<38, 35>>, i)
    /\ LET e == DigitRunEnd(s, i + 2)
       IN /\ e >= i + 2
          /\ e + 1 <= Len(s)
          /\ s[e + 1] = 59

\* re_numeric.captures(&result): the leftmost match, None when there is none.
\* first/last are the span of group 0, the digits that of group 1.
ReNumericCaptures(s) ==
    IF \E i \in 1..Len(s) : NumericAt(s, i)
    THEN LET i == CHOOSE j \in 1..Len(s) :
                     NumericAt(s, j) /\ \A k \in 1..(j - 1) : ~NumericAt(s, k)
             e == DigitRunEnd(s, i + 2)
         IN [some |-> TRUE, first |-> i, last |-> e + 1,
             digits |-> SubSeq(s, i + 2, e)]
    ELSE [some |-> FALSE, first |-> 0, last |-> 0, digits |-> <<>>]

\* str::parse::<u32>: checked decimal arithmetic in 32 bits.  The value is
\* kept as hi * 65536 + lo so that the check is exact; a digit that is not
\* ASCII is an error, as is a value above u32::MAX.
RECURSIVE ParseU32From(_, _)
ParseU32From(ds, acc) ==
    IF ds = <<>> THEN acc
    ELSE IF ~acc.ok \/ ~IsAsciiDigit(Head(ds)) THEN [ok |-> FALSE, hi |-> 0, lo |-> 0]
    ELSE LET low == acc.lo * 10 + (Head(ds) - 48)
             high == acc.hi * 10 + (low \div 65536)
         IN IF high > 65535 THEN [ok |-> FALSE, hi |-> 0, lo |-> 0]
            ELSE ParseU32From(Tail(ds), [ok |-> TRUE, hi |-> high, lo |-> low % 65536])

ParseU32(ds) ==
    IF ds = <<>> THEN [ok |-> FALSE, hi |-> 0, lo |-> 0]
    ELSE ParseU32From(ds, [ok |-> TRUE, hi |-> 0, lo |-> 0])

\* CharFromU32 without the surrogate range: what a bare `code as char` would do.
CharFromU32NoSurrogates(code) ==
    IF code.hi > 16
    THEN [some |-> FALSE, c |-> 0]
    ELSE [some |-> TRUE, c |-> code.hi * 65536 + code.lo]

\* char::from_u32: None for a surrogate (D800..DFFF) and above 10FFFF.
CharFromU32(code) ==
    IF code.hi > 16 \/ (code.hi = 0 /\ code.lo \in 55296..57343)
    THEN [some |-> FALSE, c |-> 0]
    ELSE [some |-> TRUE, c |-> code.hi * 65536 + code.lo]

\* NumericIteration without line 144: a reference that is no character stays.
NumericIterationKeepsInvalid(s, cap) ==
    LET matched == SubSeq(s, cap.first, cap.last)
        code == ParseU32(cap.digits)
        ch == IF code.ok THEN CharFromU32(code) ELSE [some |-> FALSE, c |-> 0]
    IN IF ch.some THEN StrReplace(s, matched, <<ch.c>>) ELSE s

\* One iteration of the while-let loop, lines 134-145, for a match `cap`:
\* every occurrence of the matched text is replaced by the character, or by
\* nothing when the digits do not parse or are no character.
NumericIteration(s, cap) ==
    LET matched == SubSeq(s, cap.first, cap.last)
        code == ParseU32(cap.digits)
        ch == IF code.ok THEN CharFromU32(code) ELSE [some |-> FALSE, c |-> 0]
    IN IF ch.some THEN StrReplace(s, matched, <<ch.c>>)
       ELSE StrReplace(s, matched, <<>>)

\* The loop of lines 134-145 run to its end.
RECURSIVE NumericLoop(_)
NumericLoop(s) ==
    LET cap == ReNumericCaptures(s)
    IN IF cap.some THEN NumericLoop(NumericIteration(s, cap)) ELSE s

decode_html_entities(s) == NumericLoop(DecodeNamed(s))

\* The texts the decoder is run on: concatenations of these pieces.
DecodeTokens == {
    <<97>>,                                             \* a
    <<38, 97, 109, 112, 59>>,                           \* &amp;
    <<108, 116, 59>>,                                   \* lt;
    <<113, 117, 111, 116, 59>>,                         \* quot;
    <<38, 35, 54, 53, 59>>,                             \* &#65;
    <<38, 35, 51, 56, 59>>,                             \* &#38;
    <<35, 54, 53, 59>>,                                 \* #65;
    <<38, 35, 120, 59>>,                                \* &#x;
    <<38, 35, 53, 53, 50, 57, 54, 59>>,                 \* &#55296;
    <<38, 35, 49, 49, 49, 52, 49, 49, 50, 59>>,         \* &#1114112;
    <<38, 35, 52, 50, 57, 52, 57, 54, 55, 50, 57, 54, 59>>, \* &#4294967296;
    <<38, 35, 1635, 59>>,                               \* &# ARABIC-INDIC THREE ;
    <<38, 35>>,                                         \* &#
    <<54, 53, 59>>                                      \* 65;
}

DecodeInputs == { Concat(ts) : ts \in SeqsUpTo(DecodeTokens, MaxTokens) }

DecodeIdle == text = <<>> /\ result = <<>> /\ dpc = "idle" /\ iters = 0
ResolveIdle == url = <<>> /\ video_id = [ok |-> FALSE, id |-> <<>>] /\ rpc = "idle"
TruncIdle ==
    long_transcript = <<>> /\ api_key = FALSE /\ handed = <<>> /\ tpc = "idle"
\* The files save_video_files writes into output/<video_id> (utils.rs:41-49).
FileNames == {"transcript.txt", "info.md", "summary.md", "highlights.md"}
NoFile == [exists |-> FALSE, content |-> <<>>]
MainIdle ==
    /\ pc = "off" /\ runs = 0 /\ exit = "none" /\ force = FALSE /\ video = <<>>
    /\ net = [pages |-> {}, captions |-> {}]
    /\ html = <<>> /\ title = <<>> /\ description = <<>> /\ captions_url = <<>>
    /\ transcript_data = <<>> /\ transcript = <<>>
    /\ steps = <<>> /\ fetch_err = "none"
    /\ summary = <<>> /\ highlights = <<>>
    /\ dir_exists = FALSE
    /\ files = [f \in FileNames |-> NoFile]
    /\ last_fetched = <<>>

InitDecode ==
    /\ text \in DecodeInputs
    /\ result = <<>>
    /\ dpc = "named"
    /\ iters = 0
    /\ ResolveIdle /\ TruncIdle /\ MainIdle

\* Lines 121-130: `let mut result = text.replace(..)...replace(..)`.
DecodeNamedStep ==
    /\ dpc = "named"
    /\ result' = DecodeNamed(text)
    /\ dpc' = "numeric"
    /\ UNCHANGED <<text, iters, resolveVars, truncVars, mainVars>>

\* Lines 134-145: the loop condition matched, one iteration.
NumericStep ==
    /\ dpc = "numeric"
    /\ LET cap == ReNumericCaptures(result)
       IN /\ cap.some
          /\ result' = NumericIteration(result, cap)
    /\ iters' = iters + 1
    /\ UNCHANGED <<text, dpc, resolveVars, truncVars, mainVars>>

\* Lines 134, 147: the loop condition did not match, `result` is returned.
NumericExit ==
    /\ dpc = "numeric"
    /\ ~ReNumericCaptures(result).some
    /\ dpc' = "done"
    /\ UNCHANGED <<text, result, iters, resolveVars, truncVars, mainVars>>

NextDecode == DecodeNamedStep \/ NumericStep \/ NumericExit

SpecDecode == InitDecode /\ [][NextDecode]_vars

-----------------------------------------------------------------------------
(* extract_video_id, utils.rs:8-26                                         *)

\* \s of the regex crate: the Unicode White_Space property.
IsSpace(c) ==
    c \in (9..13) \cup {32, 133, 160, 5760} \cup (8192..8202)
          \cup {8232, 8233, 8239, 8287, 12288}

\* [^&?/\s]
IsIdChar(c) == c \notin {38, 63, 47} /\ ~IsSpace(c)

\* [^&?/\s]{11} matches at index j.
ElevenAt(s, j) == j + 10 <= Len(s) /\ \A k \in 0..10 : IsIdChar(s[j + k])

\* The alternatives of the non-capturing group of the first pattern, line 11.
WatchV == <<121, 111, 117, 116, 117, 98, 101, 46, 99, 111, 109, 47, 119, 97, 116, 99, 104, 63, 118, 61>>   \* youtube.com/watch?v=
ShortLink == <<121, 111, 117, 116, 117, 46, 98, 101, 47>>   \* youtu.be/
EmbedPath == <<121, 111, 117, 116, 117, 98, 101, 46, 99, 111, 109, 47, 101, 109, 98, 101, 100, 47>>   \* youtube.com/embed/
VPath == <<121, 111, 117, 116, 117, 98, 101, 46, 99, 111, 109, 47, 118, 47>>   \* youtube.com/v/
EPath == <<121, 111, 117, 116, 117, 98, 101, 46, 99, 111, 109, 47, 101, 47>>   \* youtube.com/e/
ShortsPath == <<121, 111, 117, 116, 117, 98, 101, 46, 99, 111, 109, 47, 115, 104, 111, 114, 116, 115, 47>>   \* youtube.com/shorts/
WatchAny == <<121, 111, 117, 116, 117, 98, 101, 46, 99, 111, 109, 47, 119, 97, 116, 99, 104>>   \* youtube.com/watch

\* The three patterns of lines 10-14, in the order of the array.  "prefix":
\* one of the literals, then the 11 captured characters.  "query": the
\* literal, then .* and [\?&]v=, then the 11 captured characters.
IdPatterns == <<
    [kind |-> "prefix", lits |-> <<WatchV, ShortLink, EmbedPath, VPath, EPath, ShortsPath>>],
    [kind |-> "query",  lits |-> <<WatchAny>>],
    [kind |-> "prefix", lits |-> <<ShortsPath>>]
>>

\* A "prefix" pattern matches at index i through its k-th alternative.
PrefixAt(s, lits, i, k) ==
    MatchesAt(s, lits[k], i) /\ ElevenAt(s, i + Len(lits[k]))

\* A "query" pattern matches at index i with [\?&] at index j: . does not
\* match a line feed.
QueryAt(s, lit, i, j) ==
    /\ MatchesAt(s, lit, i)
    /\ j >= i + Len(lit)
    /\ j <= Len(s)
    /\ s[j] \in {63, 38}
    /\ MatchesAt(s, <<118, 61>>, j + 1)
    /\ ElevenAt(s, j + 3)
    /\ \A m \in (i + Len(lit))..(j - 1) : s[m] # 10

\* regex.captures(url) and captures.get(1): the leftmost match; among the
\* alternatives at that index the first one; .* is greedy, so the last
\* [\?&]v= that lets the pattern match.
IdCaptures(pat, s) ==
    IF pat.kind = "prefix"
    THEN IF \E i \in 1..Len(s), k \in 1..Len(pat.lits) : PrefixAt(s, pat.lits, i, k)
         THEN LET i == CHOOSE a \in 1..Len(s) :
                          /\ \E k \in 1..Len(pat.lits) : PrefixAt(s, pat.lits, a, k)
                          /\ \A b \in 1..(a - 1), k \in 1..Len(pat.lits) :
                                 ~PrefixAt(s, pat.lits, b, k)
                  k == CHOOSE a \in 1..Len(pat.lits) :
                          /\ PrefixAt(s, pat.lits, i, a)
                          /\ \A b \in 1..(a - 1) : ~PrefixAt(s, pat.lits, i, b)
                  j == i + Len(pat.lits[k])
              IN [some |-> TRUE, group1 |-> SubSeq(s, j, j + 10)]
         ELSE [some |-> FALSE, group1 |-> <<>>]
    ELSE IF \E i, j \in 1..Len(s) : QueryAt(s, pat.lits[1], i, j)
         THEN LET i == CHOOSE a \in 1..Len(s) :
                          /\ \E j \in 1..Len(s) : QueryAt(s, pat.lits[1], a, j)
                          /\ \A b \in 1..(a - 1), j \in 1..Len(s) :
                                 ~QueryAt(s, pat.lits[1], b, j)
                  j == CHOOSE a \in 1..Len(s) :
                          /\ QueryAt(s, pat.lits[1], i, a)
                          /\ \A b \in (a + 1)..Len(s) : ~QueryAt(s, pat.lits[1], i, b)
              IN [some |-> TRUE, group1 |-> SubSeq(s, j + 3, j + 13)]
         ELSE [some |-> FALSE, group1 |-> <<>>]

\* The for loop of lines 16-23 and the Err of line 25.
RECURSIVE FirstIdMatch(_, _)
FirstIdMatch(pats, s) ==
    IF pats = <<>> THEN [ok |-> FALSE, id |-> <<>>]
    ELSE LET cap == IdCaptures(Head(pats), s)
         IN IF cap.some THEN [ok |-> TRUE, id |-> cap.group1]
            ELSE FirstIdMatch(Tail(pats), s)

extract_video_id(s) == FirstIdMatch(IdPatterns, s)

\* The URLs the resolver is run on: a head, an identifier, a tail.
UrlHeads == {
    <<104, 116, 116, 112, 115, 58, 47, 47, 119, 119, 119, 46, 121, 111, 117, 116, 117, 98, 101, 46, 99, 111, 109, 47, 119, 97, 116, 99, 104, 63, 118, 61>>,   \* https://www.youtube.com/watch?v=
    <<104, 116, 116, 112, 115, 58, 47, 47, 121, 111, 117, 116, 117, 46, 98, 101, 47>>,   \* https://youtu.be/
    <<104, 116, 116, 112, 115, 58, 47, 47, 119, 119, 119, 46, 121, 111, 117, 116, 117, 98, 101, 46, 99, 111, 109, 47, 101, 109, 98, 101, 100, 47>>,   \* https://www.youtube.com/embed/
    <<104, 116, 116, 112, 115, 58, 47, 47, 119, 119, 119, 46, 121, 111, 117, 116, 117, 98, 101, 46, 99, 111, 109, 47, 118, 47>>,   \* https://www.youtube.com/v/
    <<104, 116, 116, 112, 115, 58, 47, 47, 119, 119, 119, 46, 121, 111, 117, 116, 117, 98, 101, 46, 99, 111, 109, 47, 101, 47>>,   \* https://www.youtube.com/e/
    <<104, 116, 116, 112, 115, 58, 47, 47, 121, 111, 117, 116, 117, 98, 101, 46, 99, 111, 109, 47, 115, 104, 111, 114, 116, 115, 47>>,   \* https://youtube.com/shorts/
    <<104, 116, 116, 112, 115, 58, 47, 47, 119, 119, 119, 46, 121, 111, 117, 116, 117, 98, 101, 46, 99, 111, 109, 47, 119, 97, 116, 99, 104, 63, 116, 61, 49, 38, 118, 61>>,   \* https://www.youtube.com/watch?t=1&v=
    <<104, 116, 116, 112, 115, 58, 47, 47, 105, 110, 118, 97, 108, 105, 100, 45, 117, 114, 108, 46, 99, 111, 109>>,   \* https://invalid-url.com
    <<104, 116, 116, 112, 115, 58, 47, 47, 118, 105, 109, 101, 111, 46, 99, 111, 109, 47>>,   \* https://vimeo.com/
    <<104, 116, 116, 112, 115, 58, 47, 47, 110, 111, 116, 121, 111, 117, 116, 117, 98, 101, 46, 99, 111, 109, 47, 119, 97, 116, 99, 104, 63, 118, 61>>,   \* https://notyoutube.com/watch?v=
    <<104, 116, 116, 112, 115, 58, 47, 47, 101, 120, 97, 109, 112, 108, 101, 46, 99, 111, 109, 47, 63, 117, 61, 121, 111, 117, 116, 117, 46, 98, 101, 47>>    \* https://example.com/?u=youtu.be/
}

UrlIds == {
    <<>>,
    <<100, 81, 119, 52, 119, 57, 87, 103, 88, 99, 81>>,   \* dQw4w9WgXcQ
    <<97, 45, 95, 52, 53, 54, 55, 56, 57, 48, 90>>,   \* a-_4567890Z
    <<100, 81, 119, 52, 119, 57, 87, 103, 88, 99>>    \* dQw4w9WgXc, one character short
}

UrlTails == {
    <<>>,
    <<38, 116, 61, 49>>,   \* &t=1
    <<63, 116, 61, 49>>,   \* ?t=1
    <<47>>    \* /
}

ResolveInputs == { h \o i \o t : h \in UrlHeads, i \in UrlIds, t \in UrlTails }

InitResolve ==
    /\ url \in ResolveInputs
    /\ video_id = [ok |-> FALSE, id |-> <<>>]
    /\ rpc = "call"
    /\ DecodeIdle /\ TruncIdle /\ MainIdle

\* One call of extract_video_id.
Resolve ==
    /\ rpc = "call"
    /\ video_id' = extract_video_id(url)
    /\ rpc' = "done"
    /\ UNCHANGED <<url, decodeVars, truncVars, mainVars>>

NextResolve == Resolve

SpecResolve == InitResolve /\ [][NextResolve]_vars

-----------------------------------------------------------------------------
(* The truncation of generate_summary and generate_highlights,             *)
(* openai.rs:24-31 and 69-74.  A transcript of more than 10000 bytes is    *)
(* written as runs [c |-> code point, n |-> how many]: <<[c |-> 97,        *)
(* n |-> 3]>> is "aaa".                                                    *)

\* The limit of openai.rs:25 and :28 (and :70, :71).
TruncateLimit == 10000

\* The longest input has at most MaxSegments runs.
MaxSegments == 2

\* String::len of a run-length text: bytes.
RECURSIVE RunsUtf8Len(_)
RunsUtf8Len(rs) ==
    IF rs = <<>> THEN 0
    ELSE Head(rs).n * Utf8Width(Head(rs).c) + RunsUtf8Len(Tail(rs))

\* str::chars().count() of a run-length text.
RECURSIVE RunsChars(_)
RunsChars(rs) == IF rs = <<>> THEN 0 ELSE Head(rs).n + RunsChars(Tail(rs))

\* str::is_char_boundary(k): byte k is the first byte of a character, or the end.
RECURSIVE IsCharBoundary(_, _)
IsCharBoundary(rs, k) ==
    IF k = 0 THEN TRUE
    ELSE IF rs = <<>> THEN FALSE
    ELSE LET w == Utf8Width(Head(rs).c)
             bytes == Head(rs).n * w
         IN IF k <= bytes THEN k % w = 0 ELSE IsCharBoundary(Tail(rs), k - bytes)

\* &s[0..k] for a k that is a character boundary: the first k bytes.
RECURSIVE BytePrefix(_, _)
BytePrefix(rs, k) ==
    IF k = 0 \/ rs = <<>> THEN <<>>
    ELSE LET w == Utf8Width(Head(rs).c)
             bytes == Head(rs).n * w
         IN IF k < bytes THEN <<[c |-> Head(rs).c, n |-> k \div w]>>
            ELSE <<Head(rs)>> \o BytePrefix(Tail(rs), k - bytes)

\* Lines 25-31 (70-74): `if transcript.len() > 10000 { &transcript[0..10000] }
\* else { transcript }`.  The slice panics when byte 10000 is inside a character.
Truncate(rs) ==
    IF RunsUtf8Len(rs) > TruncateLimit
    THEN IF IsCharBoundary(rs, TruncateLimit)
         THEN [panic |-> FALSE, str |-> BytePrefix(rs, TruncateLimit)]
         ELSE [panic |-> TRUE, str |-> <<>>]
    ELSE [panic |-> FALSE, str |-> rs]

\* The characters and run lengths the inputs are made of: one character of
\* each UTF-8 width, and lengths around the limit and its fractions.
RunChars == {97, 233, 8364, 128512}
RunLengths == {1, 2, 2500, 3333, 4999, 5000, 9999, 10000, 10001}

TruncateInputs == SeqsUpTo([c : RunChars, n : RunLengths], MaxSegments)

InitTruncate ==
    /\ long_transcript \in TruncateInputs
    /\ api_key \in BOOLEAN
    /\ handed = <<>>
    /\ tpc = "summary"
    /\ DecodeIdle /\ ResolveIdle /\ MainIdle

\* What both functions do with the transcript: the client
\* is created (lines 22, 67), the transcript truncated, the request sent
\* (lines 52, 95); the answer is Ok (then `next`) or an error.
Generate(next) ==
    /\ IF ~api_key
       THEN tpc' = "failed" /\ UNCHANGED handed
       ELSE LET t == Truncate(long_transcript)
            IN IF t.panic
               THEN tpc' = "panicked" /\ UNCHANGED handed
               ELSE /\ handed' = Append(handed, t.str)
                    /\ tpc' \in {next, "failed"}
    /\ UNCHANGED <<long_transcript, api_key, decodeVars, resolveVars, mainVars>>

generate_summary ==
    /\ tpc = "summary"
    /\ Generate("highlights")

generate_highlights ==
    /\ tpc = "highlights"
    /\ Generate("done")

NextTruncate == generate_summary \/ generate_highlights

SpecTruncate == InitTruncate /\ [][NextTruncate]_vars

-----------------------------------------------------------------------------
(* The extractors of transcript.rs:66-117 and 150-196                      *)

\* No line feed in s[from..to]: what `.` can match.
NoLineFeed(s, from, to) == \A m \in from..to : s[m] # 10

\* The indices at which pat occurs in s.
Occurrences(s, pat) == { i \in 1..Len(s) : MatchesAt(s, pat, i) }

Min(S) == CHOOSE a \in S : \A b \in S : a <= b

\* Regex::captures for pre(.*?)post: the leftmost index at which the pattern
\* matches, and for it the shortest capture; `.` matches no line feed.
LazyCaptures(s, pre, post) ==
    LET ends == Occurrences(s, post)
        endsFor(i) == { j \in ends : j >= i + Len(pre) /\ NoLineFeed(s, i + Len(pre), j - 1) }
        starts == { i \in Occurrences(s, pre) : endsFor(i) # {} }
    IN IF starts = {} THEN [some |-> FALSE, group1 |-> <<>>]
       ELSE LET i == Min(starts)
                j == Min(endsFor(i))
            IN [some |-> TRUE, group1 |-> SubSeq(s, i + Len(pre), j - 1)]

\* Regex::new: the regex crate has no look-around, and a pattern that uses
\* it is a syntax error.
RegexCompiles(pat) == ~pat.lookaround

\* The patterns of extract_video_title, lines 153-157.
TitlePatterns == <<
    [pre |-> <<60, 109, 101, 116, 97, 32, 112, 114, 111, 112, 101, 114, 116, 121, 61, 34, 111, 103, 58, 116, 105, 116, 108, 101, 34, 32, 99, 111, 110, 116, 101, 110, 116, 61, 34>>, post |-> <<34, 62>>, lookaround |-> FALSE],
    [pre |-> <<60, 109, 101, 116, 97, 32, 110, 97, 109, 101, 61, 34, 116, 105, 116, 108, 101, 34, 32, 99, 111, 110, 116, 101, 110, 116, 61, 34>>, post |-> <<34, 62>>, lookaround |-> FALSE],
    [pre |-> <<60, 116, 105, 116, 108, 101, 62>>, post |-> <<32, 45, 32, 89, 111, 117, 84, 117, 98, 101, 60, 47, 116, 105, 116, 108, 101, 62>>, lookaround |-> FALSE]
>>

\* The patterns of extract_video_description, lines 176-180.  The third is
\* "description":\s*"(.*?)(?<!\\)(?:\\\\)*" and holds the look-behind (?<!\\).
DescriptionPatterns == <<
    [pre |-> <<60, 109, 101, 116, 97, 32, 112, 114, 111, 112, 101, 114, 116, 121, 61, 34, 111, 103, 58, 100, 101, 115, 99, 114, 105, 112, 116, 105, 111, 110, 34, 32, 99, 111, 110, 116, 101, 110, 116, 61, 34>>, post |-> <<34, 62>>, lookaround |-> FALSE],
    [pre |-> <<60, 109, 101, 116, 97, 32, 110, 97, 109, 101, 61, 34, 100, 101, 115, 99, 114, 105, 112, 116, 105, 111, 110, 34, 32, 99, 111, 110, 116, 101, 110, 116, 61, 34>>, post |-> <<34, 62>>, lookaround |-> FALSE],
    [pre |-> <<34, 100, 101, 115, 99, 114, 105, 112, 116, 105, 111, 110, 34, 58, 34>>, post |-> <<34>>, lookaround |-> TRUE]
>>

UntitledVideo == <<85, 110, 116, 105, 116, 108, 101, 100, 32, 89, 111, 117, 84, 117, 98, 101, 32, 86, 105, 100, 101, 111>>
NoDescription == <<78, 111, 32, 100, 101, 115, 99, 114, 105, 112, 116, 105, 111, 110, 32, 97, 118, 97, 105, 108, 97, 98, 108, 101, 46>>

\* The for loop shared by extract_video_title (159-167) and
\* extract_video_description (182-192): each pattern is compiled when its turn
\* comes, `?` returns the compile error, the first match returns its decoded
\* capture, and `placeholder` is returned when the patterns are used up.
RECURSIVE FirstCapture(_, _, _)
FirstCapture(pats, html_, placeholder) ==
    IF pats = <<>> THEN [ok |-> TRUE, val |-> placeholder]
    ELSE IF ~RegexCompiles(Head(pats)) THEN [ok |-> FALSE, val |-> <<>>]
    ELSE LET cap == LazyCaptures(html_, Head(pats).pre, Head(pats).post)
         IN IF cap.some THEN [ok |-> TRUE, val |-> decode_html_entities(cap.group1)]
            ELSE FirstCapture(Tail(pats), html_, placeholder)

extract_video_title(html_) == FirstCapture(TitlePatterns, html_, UntitledVideo)

extract_video_description(html_) ==
    FirstCapture(DescriptionPatterns, html_, NoDescription)

\* The index after \s* read from index i.
RECURSIVE SkipSpaces(_, _)
SkipSpaces(s, i) == IF i <= Len(s) /\ IsSpace(s[i]) THEN SkipSpaces(s, i + 1) ELSE i

\* "captionTracks":\s*\[\s*\{\s*"baseUrl":\s*" read from index j: the index
\* after it, 0 when it does not match there.
TracksAt(s, j) ==
    LET tracks == <<34, 99, 97, 112, 116, 105, 111, 110, 84, 114, 97, 99, 107, 115, 34, 58>>
        base == <<34, 98, 97, 115, 101, 85, 114, 108, 34, 58>>
        a == SkipSpaces(s, j + Len(tracks))
        b == SkipSpaces(s, a + 1)
        c == SkipSpaces(s, b + 1)
        d == SkipSpaces(s, c + Len(base))
    IN IF /\ MatchesAt(s, tracks, j)
          /\ MatchesAt(s, <<91>>, a)
          /\ MatchesAt(s, <<123>>, b)
          /\ MatchesAt(s, base, c)
          /\ MatchesAt(s, <<34>>, d)
       THEN d + 1 ELSE 0

\* re_alt.captures(html), the pattern of line 81: the leftmost index at which
\* it matches, then both lazy parts as short as can be.  "captionTracks"
\* stands at index j and the quote that closes the capture at index q.
LooseCaptures(s) ==
    LET renderer == <<34, 112, 108, 97, 121, 101, 114, 67, 97, 112, 116, 105, 111, 110, 115, 84, 114, 97, 99, 107, 108, 105, 115, 116, 82, 101, 110, 100, 101, 114, 101, 114, 34>>
        quotes == Occurrences(s, <<34>>)
        tracks == { j \in Occurrences(s, <<34, 99>>) : TracksAt(s, j) # 0 }
        quotesFor(j) == { q \in quotes : q >= TracksAt(s, j)
                                          /\ NoLineFeed(s, TracksAt(s, j), q - 1) }
        tracksFor(i) == { j \in tracks : /\ j >= i + Len(renderer)
                                          /\ NoLineFeed(s, i + Len(renderer), j - 1)
                                          /\ quotesFor(j) # {} }
        starts == { i \in Occurrences(s, renderer) : tracksFor(i) # {} }
    IN IF starts = {} THEN [some |-> FALSE, group1 |-> <<>>]
       ELSE LET i == Min(starts)
                j == Min(tracksFor(i))
                q == Min(quotesFor(j))
            IN [some |-> TRUE, group1 |-> SubSeq(s, TracksAt(s, j), q - 1)]

\* url.as_str().replace("\\u0026", "&"), lines 75 and 86.
Unescape(s) == StrReplace(s, <<92, 117, 48, 48, 50, 54>>, <<38>>)

\* extract_captions_url, lines 67-93: the tight pattern of line 69, then the
\* loose one of line 81, then the error of line 92.
extract_captions_url(html_) ==
    LET tight == LazyCaptures(html_, <<34, 99, 97, 112, 116, 105, 111, 110, 84, 114, 97, 99, 107, 115, 34, 58, 91, 123, 34, 98, 97, 115, 101, 85, 114, 108, 34, 58, 34>>, <<34, 44>>)
        loose == LooseCaptures(html_)
    IN IF tight.some THEN [ok |-> TRUE, val |-> Unescape(tight.group1)]
       ELSE IF loose.some THEN [ok |-> TRUE, val |-> Unescape(loose.group1)]
       ELSE [ok |-> FALSE, val |-> <<>>]

OpenText == <<60, 116, 101, 120, 116>>
CloseText == <<60, 47, 116, 101, 120, 116, 62>>

\* re_text.captures_iter(data), line 103, for <text.*?>(.*?)</text>: the
\* matches from index `from` on, each at the leftmost index at which the
\* pattern matches, with both lazy parts as short as can be (`>` at index j,
\* </text> at index k), the next one sought after the end of the one before.
\* The sequence of the groups 1.
RECURSIVE TextCaptures(_, _)
TextCaptures(s, from) ==
    LET closes == Occurrences(s, CloseText)
        closesFor(j) == { k \in closes : k >= j + 1 /\ NoLineFeed(s, j + 1, k - 1) }
        opensFor(i) == { j \in Occurrences(s, <<62>>) :
                            /\ j >= i + Len(OpenText)
                            /\ NoLineFeed(s, i + Len(OpenText), j - 1)
                            /\ closesFor(j) # {} }
        starts == { i \in Occurrences(s, OpenText) : i >= from /\ opensFor(i) # {} }
    IN IF starts = {} THEN <<>>
       ELSE LET i == Min(starts)
                j == Min(opensFor(i))
                k == Min(closesFor(j))
            IN <<SubSeq(s, j + 1, k - 1)>> \o TextCaptures(s, k + Len(CloseText))

\* Lines 101-110: every capture decoded and pushed with one space after it.
RECURSIVE PushAll(_)
PushAll(caps) ==
    IF caps = <<>> THEN <<>>
    ELSE decode_html_entities(Head(caps)) \o <<32>> \o PushAll(Tail(caps))

\* parse_transcript_data without lines 112-114: an empty transcript is Ok.
ParseWithoutEmptyCheck(data) ==
    [ok |-> TRUE, val |-> PushAll(TextCaptures(data, 1))]

\* parse_transcript_data, lines 96-117.
parse_transcript_data(data) ==
    LET transcript_ == PushAll(TextCaptures(data, 1))
    IN IF transcript_ = <<>> THEN [ok |-> FALSE, val |-> <<>>]
       ELSE [ok |-> TRUE, val |-> transcript_]

-----------------------------------------------------------------------------
(* fetch_video_data, transcript.rs:17-64, step by step                     *)

\* The order of the steps in the body of fetch_video_data.
FetchOrder == <<"page_fetch", "title", "description", "captions_url",
                "caption_fetch", "parse">>

\* The pieces pages are made of.
OgTitle == <<60, 109, 101, 116, 97, 32, 112, 114, 111, 112, 101, 114, 116, 121, 61, 34, 111, 103, 58, 116, 105, 116, 108, 101, 34, 32, 99, 111, 110, 116, 101, 110, 116, 61, 34, 77, 121, 32, 86, 105, 100, 101, 111, 34, 62>>
TitleElement == <<60, 116, 105, 116, 108, 101, 62, 84, 32, 45, 32, 89, 111, 117, 84, 117, 98, 101, 60, 47, 116, 105, 116, 108, 101, 62>>
OgDescription == <<60, 109, 101, 116, 97, 32, 112, 114, 111, 112, 101, 114, 116, 121, 61, 34, 111, 103, 58, 100, 101, 115, 99, 114, 105, 112, 116, 105, 111, 110, 34, 32, 99, 111, 110, 116, 101, 110, 116, 61, 34, 68, 32, 38, 97, 109, 112, 59, 32, 69, 34, 62>>
MetaDescription == <<60, 109, 101, 116, 97, 32, 110, 97, 109, 101, 61, 34, 100, 101, 115, 99, 114, 105, 112, 116, 105, 111, 110, 34, 32, 99, 111, 110, 116, 101, 110, 116, 61, 34, 68, 34, 62>>
JsonDescription == <<34, 100, 101, 115, 99, 114, 105, 112, 116, 105, 111, 110, 34, 58, 34, 74, 34>>
TightTracks == <<34, 99, 97, 112, 116, 105, 111, 110, 84, 114, 97, 99, 107, 115, 34, 58, 91, 123, 34, 98, 97, 115, 101, 85, 114, 108, 34, 58, 34, 104, 116, 116, 112, 115, 58, 47, 47, 99, 47, 116, 63, 97, 61, 49, 92, 117, 48, 48, 50, 54, 98, 61, 50, 34, 44, 34, 110, 97, 109, 101, 34>>
LooseTracks == <<34, 112, 108, 97, 121, 101, 114, 67, 97, 112, 116, 105, 111, 110, 115, 84, 114, 97, 99, 107, 108, 105, 115, 116, 82, 101, 110, 100, 101, 114, 101, 114, 34, 58, 123, 34, 99, 97, 112, 116, 105, 111, 110, 84, 114, 97, 99, 107, 115, 34, 58, 32, 91, 32, 123, 34, 98, 97, 115, 101, 85, 114, 108, 34, 58, 32, 34, 104, 116, 116, 112, 115, 58, 47, 47, 99, 47, 108, 34>>

\* The pages the page request is answered with.
Pages == {
    <<>>,
    OgTitle,
    OgTitle \o OgDescription \o TightTracks,
    TitleElement \o MetaDescription \o LooseTracks,
    MetaDescription \o TightTracks,
    OgTitle \o MetaDescription,
    OgTitle \o JsonDescription \o TightTracks,
    TitleElement \o LooseTracks
}

\* The pieces caption payloads are made of: text elements, with and without
\* attributes, and an element of another name.
Hello == <<72, 101, 108, 108, 111>>
World == <<87, 111, 114, 108, 100>>
TwoLines == <<97, 10, 98>>
TextElement(attrs, inner) == OpenText \o attrs \o <<62>> \o inner \o CloseText
TextItems == {
    [attrs |-> <<>>, inner |-> Hello],
    [attrs |-> <<32, 115, 116, 97, 114, 116, 61, 34, 49, 34>>, inner |-> World],
    [attrs |-> <<>>, inner |-> TwoLines],
    [attrs |-> <<>>, inner |-> <<38, 97, 109, 112, 59, 108, 116, 59>>],
    [attrs |-> <<>>, inner |-> <<>>]
}
OtherElement == <<60, 112, 62, 120, 60, 47, 112, 62>>
PayloadItems == { TextElement(e.attrs, e.inner) : e \in TextItems } \cup {OtherElement}

\* Payloads have at most MaxElements items.
MaxElements == 2

Payloads == { Concat(es) : es \in SeqsUpTo(PayloadItems, MaxElements) }

\* An answer that is a transport error.
NetError == <<0>>

\* A step of fetch_video_data failed: `?` returns the error at once.
FetchFails(step) ==
    /\ fetch_err' = step
    /\ pc' = "fetch_failed"

\* Lines 19-22: the client is built, or not.
BuildClient ==
    /\ pc = "build_client"
    /\ \/ pc' = "fetch_page" /\ UNCHANGED fetch_err
       \/ FetchFails("client")
    /\ UNCHANGED <<runs, exit, force, video, net, fetchLocals, steps, summary,
                   highlights, fsVars, last_fetched, decodeVars, resolveVars, truncVars>>

\* Lines 25-32: the one request for the page and the reading of its body.
FetchPage ==
    /\ pc = "fetch_page"
    /\ steps' = Append(steps, "page_fetch")
    /\ \E answer \in net.pages \cup {NetError} :
          IF answer = NetError
          THEN FetchFails("page_fetch") /\ UNCHANGED html
          ELSE html' = answer /\ pc' = "extract_title" /\ UNCHANGED fetch_err
    /\ UNCHANGED <<runs, exit, force, video, net, title, description, captions_url,
                   transcript_data, transcript, summary, highlights, fsVars,
                   last_fetched, decodeVars, resolveVars, truncVars>>

\* Lines 35-36.
ExtractTitle ==
    /\ pc = "extract_title"
    /\ steps' = Append(steps, "title")
    /\ LET r == extract_video_title(html)
       IN IF r.ok
          THEN title' = r.val /\ pc' = "extract_description" /\ UNCHANGED fetch_err
          ELSE FetchFails("title") /\ UNCHANGED title
    /\ UNCHANGED <<runs, exit, force, video, net, html, description, captions_url,
                   transcript_data, transcript, summary, highlights, fsVars,
                   last_fetched, decodeVars, resolveVars, truncVars>>

\* Lines 38-39.
ExtractDescription ==
    /\ pc = "extract_description"
    /\ steps' = Append(steps, "description")
    /\ LET r == extract_video_description(html)
       IN IF r.ok
          THEN description' = r.val /\ pc' = "extract_captions_url" /\ UNCHANGED fetch_err
          ELSE FetchFails("description") /\ UNCHANGED description
    /\ UNCHANGED <<runs, exit, force, video, net, html, title, captions_url,
                   transcript_data, transcript, summary, highlights, fsVars,
                   last_fetched, decodeVars, resolveVars, truncVars>>

\* ExtractCaptionsUrl with the error of line 42 dropped: the run goes on
\* with an empty locator.
ExtractCaptionsUrlUnchecked ==
    /\ pc = "extract_captions_url"
    /\ steps' = Append(steps, "captions_url")
    /\ captions_url' = extract_captions_url(html).val
    /\ pc' = "fetch_captions"
    /\ UNCHANGED <<runs, exit, force, video, net, html, title, description,
                   transcript_data, transcript, fetch_err, summary, highlights,
                   fsVars, last_fetched, decodeVars, resolveVars, truncVars>>

\* Lines 41-42.
ExtractCaptionsUrl ==
    /\ pc = "extract_captions_url"
    /\ steps' = Append(steps, "captions_url")
    /\ LET r == extract_captions_url(html)
       IN IF r.ok
          THEN captions_url' = r.val /\ pc' = "fetch_captions" /\ UNCHANGED fetch_err
          ELSE FetchFails("captions_url") /\ UNCHANGED captions_url
    /\ UNCHANGED <<runs, exit, force, video, net, html, title, description,
                   transcript_data, transcript, summary, highlights, fsVars,
                   last_fetched, decodeVars, resolveVars, truncVars>>

\* Lines 45-51: the one request for the captions and the reading of its body.
FetchCaptions ==
    /\ pc = "fetch_captions"
    /\ steps' = Append(steps, "caption_fetch")
    /\ \E answer \in net.captions \cup {NetError} :
          IF answer = NetError
          THEN FetchFails("caption_fetch") /\ UNCHANGED transcript_data
          ELSE transcript_data' = answer /\ pc' = "parse" /\ UNCHANGED fetch_err
    /\ UNCHANGED <<runs, exit, force, video, net, html, title, description,
                   captions_url, transcript, summary, highlights, fsVars,
                   last_fetched, decodeVars, resolveVars, truncVars>>

\* Lines 54-63: the payload is parsed and the VideoMetadata returned.
ParseTranscript ==
    /\ pc = "parse"
    /\ steps' = Append(steps, "parse")
    /\ LET r == parse_transcript_data(transcript_data)
       IN IF r.ok
          THEN transcript' = r.val /\ pc' = "fetch_returned" /\ UNCHANGED fetch_err
          ELSE FetchFails("parse") /\ UNCHANGED transcript
    /\ UNCHANGED <<runs, exit, force, video, net, html, title, description,
                   captions_url, transcript_data, summary, highlights, fsVars,
                   last_fetched, decodeVars, resolveVars, truncVars>>

NextFetch ==
    \/ BuildClient
    \/ FetchPage
    \/ ExtractTitle
    \/ ExtractDescription
    \/ ExtractCaptionsUrl
    \/ FetchCaptions
    \/ ParseTranscript

VideoId == <<100, 81, 119, 52, 119, 57, 87, 103, 88, 99, 81>>

InitFetch ==
    /\ pc = "build_client"
    /\ runs = 1
    /\ exit = "none"
    /\ force = FALSE
    /\ video = VideoId
    /\ net = [pages |-> Pages, captions |-> Payloads]
    /\ html = <<>> /\ title = <<>> /\ description = <<>> /\ captions_url = <<>>
    /\ transcript_data = <<>> /\ transcript = <<>>
    /\ steps = <<>>
    /\ fetch_err = "none"
    /\ summary = <<>> /\ highlights = <<>>
    /\ dir_exists = FALSE
    /\ files = [f \in FileNames |-> NoFile]
    /\ last_fetched = <<>>
    /\ DecodeIdle /\ ResolveIdle /\ TruncIdle

\* One call of fetch_video_data, against every page and every payload.
SpecFetch == InitFetch /\ [][NextFetch]_vars

-----------------------------------------------------------------------------
(* main, main.rs:27-97, with the file functions of utils.rs:29-95          *)

\* main is run at most MaxInvocations times.
MaxInvocations == 2

\* The command lines: a URL of the video, and a URL that is none.
MainUrls == {
    <<104, 116, 116, 112, 115, 58, 47, 47, 119, 119, 119, 46, 121, 111, 117, 116, 117, 98, 101, 46, 99, 111, 109, 47, 119, 97, 116, 99, 104, 63, 118, 61, 100, 81, 119, 52, 119, 57, 87, 103, 88, 99, 81>>,
    <<104, 116, 116, 112, 115, 58, 47, 47, 105, 110, 118, 97, 108, 105, 100, 45, 117, 114, 108, 46, 99, 111, 109>>
}

\* What the language model answers.
Answers == { <<83>>, <<84>> }

\* The network of the runs of main: a page with every field, a page without
\* captions, and two payloads with text and one without.
MainPages == { OgTitle \o OgDescription \o TightTracks, OgTitle \o MetaDescription }
MainPayloads == {
    TextElement(<<>>, Hello) \o TextElement(<<>>, World),
    TextElement(<<>>, World),
    <<60, 112, 62, 120, 60, 47, 112, 62>>
}

Init ==
    /\ pc = "idle"
    /\ runs = 0
    /\ exit = "none"
    /\ force = FALSE
    /\ video = <<>>
    /\ net = [pages |-> MainPages, captions |-> MainPayloads]
    /\ html = <<>> /\ title = <<>> /\ description = <<>> /\ captions_url = <<>>
    /\ transcript_data = <<>> /\ transcript = <<>>
    /\ steps = <<>>
    /\ fetch_err = "none"
    /\ summary = <<>> /\ highlights = <<>>
    /\ dir_exists = FALSE
    /\ files = [f \in FileNames |-> NoFile]
    /\ last_fetched = <<>>
    /\ DecodeIdle /\ ResolveIdle /\ TruncIdle

\* main returns: Err through a `?`, or Ok at line 96.  Its locals are gone.
MainReturns(how) ==
    /\ pc' = "idle"
    /\ exit' = how
    /\ html' = <<>> /\ title' = <<>> /\ description' = <<>> /\ captions_url' = <<>>
    /\ transcript_data' = <<>> /\ transcript' = <<>>
    /\ steps' = <<>>
    /\ fetch_err' = "none"
    /\ summary' = <<>> /\ highlights' = <<>>

\* Lines 32-36: the arguments are parsed and the video id extracted.
StartRun ==
    /\ pc = "idle"
    /\ runs < MaxInvocations
    /\ runs' = runs + 1
    /\ \E u \in MainUrls, f \in BOOLEAN :
          /\ force' = f
          /\ LET r == extract_video_id(u)
             IN IF r.ok
                THEN /\ video' = r.id
                     /\ pc' = "cache_check"
                     /\ exit' = "none"
                     /\ UNCHANGED <<fetchLocals, steps, fetch_err, summary, highlights>>
                ELSE /\ video' = <<>>
                     /\ MainReturns("err")
    /\ UNCHANGED <<net, fsVars, last_fetched, decodeVars, resolveVars, truncVars>>

\* Line 42: `if !utils::video_exists(&video_id) || args.force`, with
\* video_exists of utils.rs:87-90, which looks at the directory alone.
CacheCheck ==
    /\ pc = "cache_check"
    /\ pc' = IF ~dir_exists \/ force THEN "build_client" ELSE "read_cache"
    /\ UNCHANGED <<runs, exit, force, video, net, fetchLocals, steps, fetch_err,
                   summary, highlights, fsVars, last_fetched,
                   decodeVars, resolveVars, truncVars>>

\* Lines 44-46: fetch_video_data returned an error, and `?` returns it.
FetchError ==
    /\ pc = "fetch_failed"
    /\ MainReturns("err")
    /\ UNCHANGED <<runs, force, video, net, fsVars, last_fetched,
                   decodeVars, resolveVars, truncVars>>

\* save_to_file, utils.rs:71-79, of `content` to the file `name`: after
\* create_dir_all, fs::write creates or truncates the file and writes.  An
\* error leaves the file as it was, or created and empty.
SaveToFile(name, content, next) ==
    \/ /\ dir_exists' = TRUE
       /\ files' = [files EXCEPT ![name] = [exists |-> TRUE, content |-> content]]
       /\ pc' = next
       /\ UNCHANGED <<exit, fetchLocals, steps, fetch_err, summary, highlights>>
    \/ /\ UNCHANGED fsVars
       /\ MainReturns("err")
    \/ /\ dir_exists' = TRUE
       /\ files' = [files EXCEPT ![name] = [exists |-> TRUE, content |-> <<>>]]
       /\ MainReturns("err")

\* Lines 49-50, utils.rs:38 and 29-33: fetch_video_data has returned Ok, its
\* locals are gone, and create_video_directory makes the directory, or fails.
CreateVideoDirectory ==
    /\ pc = "fetch_returned"
    /\ last_fetched' = transcript
    /\ \/ /\ dir_exists' = TRUE
          /\ pc' = "save_transcript"
          /\ html' = <<>> /\ captions_url' = <<>> /\ transcript_data' = <<>>
          /\ steps' = <<>>
          /\ UNCHANGED <<exit, title, description, transcript, fetch_err,
                         summary, highlights>>
       \/ /\ UNCHANGED dir_exists
          /\ MainReturns("err")
    /\ UNCHANGED <<runs, force, video, net, files, decodeVars, resolveVars, truncVars>>

\* utils.rs:41.
SaveTranscript ==
    /\ pc = "save_transcript"
    /\ SaveToFile("transcript.txt", transcript, "save_info")
    /\ UNCHANGED <<runs, force, video, net, last_fetched,
                   decodeVars, resolveVars, truncVars>>

\* utils.rs:44-45: format!("# {}\n\n{}", title, description).
SaveInfo ==
    /\ pc = "save_info"
    /\ SaveToFile("info.md", <<35, 32>> \o title \o <<10, 10>> \o description,
                  "save_empty_summary")
    /\ UNCHANGED <<runs, force, video, net, last_fetched,
                   decodeVars, resolveVars, truncVars>>

\* utils.rs:48.
SaveEmptySummary ==
    /\ pc = "save_empty_summary"
    /\ SaveToFile("summary.md", <<>>, "save_empty_highlights")
    /\ UNCHANGED <<runs, force, video, net, last_fetched,
                   decodeVars, resolveVars, truncVars>>

\* utils.rs:49, and the return to line 52 of main.
SaveEmptyHighlights ==
    /\ pc = "save_empty_highlights"
    /\ SaveToFile("highlights.md", <<>>, "generate_summary")
    /\ UNCHANGED <<runs, force, video, net, last_fetched,
                   decodeVars, resolveVars, truncVars>>

\* Lines 55-65, utils.rs:82-84: the cached transcript is read; the read
\* fails when the file is not there, and can fail when it is.
ReadCache ==
    /\ pc = "read_cache"
    /\ \/ /\ files["transcript.txt"].exists
          /\ transcript' = files["transcript.txt"].content
          /\ title' = <<89, 111, 117, 84, 117, 98, 101, 32, 86, 105, 100, 101, 111, 32>> \o video
          /\ description' = <<68, 101, 115, 99, 114, 105, 112, 116, 105, 111, 110, 32, 110, 111, 116, 32, 97, 118, 97, 105, 108, 97, 98, 108, 101, 32, 102, 111, 114, 32, 99, 97, 99, 104, 101, 100, 32, 118, 105, 100, 101, 111, 46>>
          /\ pc' = "generate_summary"
          /\ UNCHANGED <<exit, html, captions_url, transcript_data, steps, fetch_err,
                         summary, highlights>>
       \/ MainReturns("err")
    /\ UNCHANGED <<runs, force, video, net, fsVars, last_fetched,
                   decodeVars, resolveVars, truncVars>>

\* Lines 70-72: generate_summary answers, or fails.
GenerateSummary ==
    /\ pc = "generate_summary"
    /\ \/ /\ summary' \in Answers
          /\ pc' = "save_summary"
          /\ UNCHANGED <<exit, fetchLocals, steps, fetch_err, highlights>>
       \/ MainReturns("err")
    /\ UNCHANGED <<runs, force, video, net, fsVars, last_fetched,
                   decodeVars, resolveVars, truncVars>>

\* Lines 75-76, utils.rs:55-60.
SaveSummary ==
    /\ pc = "save_summary"
    /\ SaveToFile("summary.md", summary, "generate_highlights")
    /\ UNCHANGED <<runs, force, video, net, last_fetched,
                   decodeVars, resolveVars, truncVars>>

\* Lines 80-82: generate_highlights answers, or fails.
GenerateHighlights ==
    /\ pc = "generate_highlights"
    /\ \/ /\ highlights' \in Answers
          /\ pc' = "save_highlights"
          /\ UNCHANGED <<exit, fetchLocals, steps, fetch_err, summary>>
       \/ MainReturns("err")
    /\ UNCHANGED <<runs, force, video, net, fsVars, last_fetched,
                   decodeVars, resolveVars, truncVars>>

\* Lines 85-86, utils.rs:63-68.
SaveHighlights ==
    /\ pc = "save_highlights"
    /\ SaveToFile("highlights.md", highlights, "finish")
    /\ UNCHANGED <<runs, force, video, net, last_fetched,
                   decodeVars, resolveVars, truncVars>>

\* Lines 88-96: main returns Ok.
Finish ==
    /\ pc = "finish"
    /\ MainReturns("ok")
    /\ UNCHANGED <<runs, force, video, net, fsVars, last_fetched,
                   decodeVars, resolveVars, truncVars>>

Next ==
    \/ StartRun
    \/ CacheCheck
    \/ BuildClient
    \/ FetchPage
    \/ ExtractTitle
    \/ ExtractDescription
    \/ ExtractCaptionsUrl
    \/ FetchCaptions
    \/ ParseTranscript
    \/ FetchError
    \/ CreateVideoDirectory
    \/ SaveTranscript
    \/ SaveInfo
    \/ SaveEmptySummary
    \/ SaveEmptyHighlights
    \/ ReadCache
    \/ GenerateSummary
    \/ SaveSummary
    \/ GenerateHighlights
    \/ SaveHighlights
    \/ Finish

\* Runs of main, one after the other, over one output directory.
Spec == Init /\ [][Next]_vars

-----------------------------------------------------------------------------
(* The properties                                                          *)

Amp == <<38, 97, 109, 112, 59>>   \* &amp;
MalformedHex == <<38, 35, 120, 59>>   \* &#x;

\* The tails that make a named reference when `&` is put before them.
NamedTails == {
    <<108, 116, 59>>,   \* lt;
    <<103, 116, 59>>,   \* gt;
    <<113, 117, 111, 116, 59>>,   \* quot;
    <<35, 51, 57, 59>>    \* #39;
}

\* C4: named-reference decoding is single-pass: the `&` that decoding `&amp;`
\* produces is never decoded again, so for every named-reference tail X
\* decode("&amp;" + X) = "&" + X, and decode("&amp;lt;") is `&lt;`, not `<`.
C4_SinglePass ==
    dpc = "done" =>
        \A x \in NamedTails : text = Amp \o x => result = <<38>> \o x

\* C5: decode_html_entities terminates on every input: every iteration of the
\* numeric-reference loop leaves the text strictly shorter, in characters and
\* in bytes, so the iterations taken plus the length that is left never
\* exceed the length the loop started with: the loop is left after at most
\* that many iterations.
C5_Terminates ==
    dpc \in {"numeric", "done"} =>
        /\ iters + Len(result) <= Len(DecodeNamed(text))
        /\ iters + Utf8Len(result) <= Utf8Len(DecodeNamed(text))

\* C5's case: the loop ran more than once on a text with a reference that is
\* no character, and was left.
C5_Witness ==
    /\ dpc = "done"
    /\ iters >= 2
    /\ Contains(text, <<38, 35, 53, 53, 50, 57, 54, 59>>)

\* Text without `&`, `#`, `;` or `<`: nothing in it is a reference.
PlainTexts == { Concat(ts) : ts \in SeqsUpTo({<<97>>}, MaxTokens) }

\* Numeric references and what each is resolved to; the malformed spelling
\* `&#x;` is resolved to `hex`.
NumericCases(hex) == {
    [ref |-> <<38, 35, 54, 53, 59>>, to |-> <<65>>],   \* &#65; is A
    [ref |-> <<38, 35, 51, 56, 59>>, to |-> <<38>>],   \* &#38; is &
    [ref |-> <<38, 35, 53, 53, 50, 57, 54, 59>>, to |-> <<>>],   \* &#55296;, a surrogate
    [ref |-> <<38, 35, 49, 49, 49, 52, 49, 49, 50, 59>>, to |-> <<>>],   \* &#1114112;, above 10FFFF
    [ref |-> <<38, 35, 52, 50, 57, 52, 57, 54, 55, 50, 57, 54, 59>>, to |-> <<>>],   \* &#4294967296;, above u32::MAX
    [ref |-> <<38, 35, 1635, 59>>, to |-> <<>>],   \* a digit that is not ASCII
    [ref |-> MalformedHex, to |-> hex]
}

\* The text is one reference between plain texts, and the result is what the
\* reference is resolved to between the same plain texts.
ResolvedAs(cases) ==
    dpc = "done" =>
        \A p, q \in PlainTexts, k \in cases :
            text = p \o k.ref \o q => result = p \o k.to \o q

HostOf(s) ==
    IF \E i \in 1..Len(s) : MatchesAt(s, <<58, 47, 47>>, i)
    THEN LET i == CHOOSE a \in 1..Len(s) :
                     /\ MatchesAt(s, <<58, 47, 47>>, a)
                     /\ \A b \in 1..(a - 1) : ~MatchesAt(s, <<58, 47, 47>>, b)
             ends == { e \in (i + 3)..Len(s) : s[e] \in {47, 63, 35} }
             e == IF ends = {} THEN Len(s) + 1
                  ELSE CHOOSE a \in ends : \A b \in ends : a <= b
         IN SubSeq(s, i + 3, e - 1)
    ELSE <<>>

YouTubeHosts == {
    <<119, 119, 119, 46, 121, 111, 117, 116, 117, 98, 101, 46, 99, 111, 109>>,   \* www.youtube.com
    <<121, 111, 117, 116, 117, 98, 101, 46, 99, 111, 109>>,   \* youtube.com
    <<121, 111, 117, 116, 117, 46, 98, 101>>    \* youtu.be
}

\* The heads of UrlHeads that are supported URL shapes.
SupportedHeads == { h \in UrlHeads : HostOf(h \o <<47>>) \in YouTubeHosts }

\* C8: every supported URL shape carrying an 11-character identifier resolves
\* to that identifier, a URL of an unrelated host is an error, and every Ok
\* result is 11 characters long.
C8_Resolves ==
    rpc = "done" =>
        /\ video_id.ok => Len(video_id.id) = 11
        /\ \A h \in SupportedHeads, i \in UrlIds, tl \in UrlTails :
               (Len(i) = 11 /\ url = h \o i \o tl) => video_id = [ok |-> TRUE, id |-> i]
        /\ HostOf(url) \notin YouTubeHosts => ~video_id.ok

\* The first k characters of a run-length text.
RECURSIVE CharPrefix(_, _)
CharPrefix(rs, k) ==
    IF k = 0 \/ rs = <<>> THEN <<>>
    ELSE IF k < Head(rs).n THEN <<[c |-> Head(rs).c, n |-> k]>>
    ELSE <<Head(rs)>> \o CharPrefix(Tail(rs), k - Head(rs).n)

\* C9: for every transcript, what is handed to the language model is the whole
\* transcript when it is within 10000 characters and its first 10000
\* characters otherwise, and the truncation never aborts the run.
C9_Truncates ==
    /\ tpc # "panicked"
    /\ \A k \in 1..Len(handed) :
           handed[k] = IF RunsChars(long_transcript) <= TruncateLimit
                       THEN long_transcript
                       ELSE CharPrefix(long_transcript, TruncateLimit)

Range(f) == { f[k] : k \in DOMAIN f }

\* C1: in one run of fetch_video_data the steps happen in the order page
\* fetch, title, description, locator, caption fetch, normalization, each at
\* most once; the caption request is issued only after the page was fetched
\* and a locator extracted from it; the first step that fails ends the run,
\* no later step being executed.
C1_Sequential ==
    /\ Len(steps) <= Len(FetchOrder)
    /\ \A k \in 1..Len(steps) : steps[k] = FetchOrder[k]
    /\ "caption_fetch" \in Range(steps) =>
           /\ extract_captions_url(html).ok
           /\ captions_url = extract_captions_url(html).val
    /\ fetch_err # "none" =>
           /\ pc = "fetch_failed"
           /\ IF fetch_err = "client" THEN steps = <<>>
              ELSE steps # <<>> /\ steps[Len(steps)] = fetch_err
    /\ pc = "fetch_returned" => steps = FetchOrder /\ fetch_err = "none"

\* C1's case: the caption request was issued, after the four steps before it,
\* and failed, which ended the run.
C1_Witness ==
    /\ pc = "fetch_failed"
    /\ fetch_err = "caption_fetch"
    /\ steps = SubSeq(FetchOrder, 1, 5)

\* No pattern of the list, compiled or not, has a match in the page.
MatchesNone(pats, page) ==
    \A k \in 1..Len(pats) : ~LazyCaptures(page, pats[k].pre, pats[k].post).some

\* C2: title extraction and description extraction each yield a value and
\* never make the run fail; a page that matches none of the description
\* patterns yields the placeholder description, and the run goes on to the
\* extraction of the caption locator.
C2_BestEffort ==
    /\ fetch_err \notin {"title", "description"}
    /\ (Len(steps) >= 3 /\ MatchesNone(DescriptionPatterns, html)) =>
           /\ description = NoDescription
           /\ steps[3] = "description"

\* C3: parse_transcript_data returns an error whenever the payload holds no
\* matching text element and a non-empty transcript whenever it returns Ok, so
\* the transcript of every VideoMetadata fetch_video_data returns is non-empty.
C3_NonEmpty ==
    /\ pc = "fetch_returned" => transcript # <<>>
    /\ Len(steps) = 6 =>
           (TextCaptures(transcript_data, 1) = <<>> <=> fetch_err = "parse")

\* C3's case: a payload that is not empty and holds no text element was
\* parsed, and the run ended with the error of the parse step.
C3_Witness ==
    /\ Len(steps) = 6
    /\ transcript_data # <<>>
    /\ fetch_err = "parse"

\* decode(inner) and one space for each element, in the order of the elements.
RECURSIVE Joined(_)
Joined(es) ==
    IF es = <<>> THEN <<>>
    ELSE decode_html_entities(Head(es).inner) \o <<32>> \o Joined(Tail(es))

RECURSIVE Rendered(_)
Rendered(es) ==
    IF es = <<>> THEN <<>>
    ELSE TextElement(Head(es).attrs, Head(es).inner) \o Rendered(Tail(es))

\* C7: for every payload with at least one text element parse_transcript_data
\* returns the decoded inner content of each text element followed by one
\* space, in document order, whatever the attributes, and nothing else.
C7_Concatenation ==
    Len(steps) = 6 =>
        \A es \in SeqsUpTo(TextItems, MaxElements) :
            (es # <<>> /\ transcript_data = Rendered(es)) =>
                /\ pc = "fetch_returned"
                /\ transcript = Joined(es)

\* C10: between two runs of main, and when a run takes the cached branch, a
\* directory output/<id> that exists holds a transcript.txt with the non-empty
\* transcript of the last successful fetch.
C10_CacheUsable ==
    (pc \in {"idle", "read_cache"} /\ dir_exists) =>
        /\ files["transcript.txt"].exists
        /\ files["transcript.txt"].content = last_fetched
        /\ last_fetched # <<>>

\* The two files have the texts of a run that went through to its end: the
\* highlights are the last thing a run saves, after its summary.
Summarised ==
    \A f \in {"summary.md", "highlights.md"} :
        files[f].exists /\ files[f].content \in Answers

\* C11: once a run of main has saved a summary and highlights, every step of
\* every later run, forced or not, failing or not, leaves summary.md and
\* highlights.md as they are or replaces one of them by a newly generated
\* text: neither file is ever emptied or removed.
C11_KeepsSummaries ==
    [][Summarised =>
          \A f \in {"summary.md", "highlights.md"} :
              \/ files'[f] = files[f]
              \/ files'[f].exists /\ files'[f].content \in Answers]_vars

=============================================================================
